---- MODULE Spec2Model ----
(***************************************************************************)
(* The ledger engine of the simulated exchange: Transaction, Block,        *)
(* MempoolController and ChainController, as a state machine.              *)
(*                                                                         *)
(* Time is counted in whole seconds (Date.now() / 1000), so the age of a   *)
(* transaction in calculatePriority is now - timestamp.  A priority        *)
(* fee * 1000 / (age + 1) is kept as the exact fraction num / den.         *)
(* candidates is the stack of mineBlock calls that have drained the        *)
(* mempool and have not returned yet, each with its candidate block and    *)
(* the loop variable of mine; it is empty between calls.  sim holds the    *)
(* fields of LiveSimulationService and the number of its setTimeout        *)
(* callbacks that are scheduled and have not run yet.                      *)
(* A SHA-256 digest is kept as the record of the fields it was computed    *)
(* from (two digests are equal exactly when their inputs are), and the     *)
(* number of leading zero hex characters of a digest is a fixed function   *)
(* of those fields (LeadingZeros).                                         *)
(***************************************************************************)
EXTENDS Integers, Sequences, FiniteSets, TLC

VARIABLES chain, mempool, balances, difficulty, now, last, candidates, sim

vars == <<chain, mempool, balances, difficulty, now, last, candidates, sim>>

(***************************************************************************)
(* Bounds of the model.  MaxTime caps the clock, MaxBlocks the length of   *)
(* the chain, MaxTxs the number of submitted transactions that are pending *)
(* or confirmed.  maxPoolSize is the constructor argument of               *)
(* MempoolController (100 when left out), taken small so that a full pool  *)
(* is reached.  MaxPending caps the number of pending transactions in the  *)
(* runs of an engine whose mempool has the default capacity, MaxAttempts   *)
(* the iterations of the proof-of-work loop that are followed one by one,  *)
(* MaxSimBlocks and MaxSimPending the blocks and the pending transactions  *)
(* of a run of the live simulation.                                        *)
(***************************************************************************)
MaxTime == 1
MaxBlocks == 3
MaxTxs == 2
maxPoolSize == 2
MaxPending == 11
MaxAttempts == 512
MaxSimBlocks == 3
MaxSimPending == 3

(***************************************************************************)
(* Program constants.                                                      *)
(***************************************************************************)
miningReward == 50
maxTransactionsPerBlock == 10
initialDifficulty == 4
genesisAmount == 100
minDifficulty == 1
maxDifficulty == 8
defaultMaxPoolSize == 100

(***************************************************************************)
(* Input sets.                                                             *)
(***************************************************************************)
Payers == {"satoshi", "alice"}
Payees == {"bob"}
Miners == {"alice"}
Amounts == {60}
Fees == {0, 1}
PoolFees == {0, 1, 2}
BatchFees == {1, 3, 5}
InvalidAmounts == {0, -60}
InvalidFees == {-1}
DrainCounts == {1, 10}
BatchDrainCounts == {3}
NonceSeeds == {0}
DifficultyInputs == {2}
RetargetInputs == {2, 3}
ClampInputs == {-3, 0, 5, 9, 20}
MineDifficulties == {1, 8}
ReplayAmounts == {30}
BotWallets == <<"Alice_Bot", "Bob_Bot">>
Speeds == {"SLOW"}
SimAmounts == {1}
SimFees == {1}
QueryAddresses == {"satoshi", "genesis"}

NoSig == [none |-> TRUE]
NoHash == [none |-> TRUE]
NoTx == [none |-> TRUE]
EmptyHash == [empty |-> TRUE]

Min(a, b) == IF a < b THEN a ELSE b
Max(a, b) == IF a > b THEN a ELSE b

(***************************************************************************)
(* Transaction                                                             *)
(***************************************************************************)
Transaction(amount, payer, payee, fee, type, timestamp) ==
    [amount |-> amount, payer |-> payer, payee |-> payee, fee |-> fee,
     type |-> type, timestamp |-> timestamp, signature |-> NoSig]

getTotalCost(tx) == tx.amount + tx.fee

setSignature(tx, signature) == [tx EXCEPT !.signature = signature]

toString(tx) ==
    [amount |-> tx.amount, payer |-> tx.payer, payee |-> tx.payee,
     fee |-> tx.fee, timestamp |-> tx.timestamp, type |-> tx.type]

toJSON(tx) ==
    [amount |-> tx.amount, payer |-> tx.payer, payee |-> tx.payee,
     fee |-> tx.fee, timestamp |-> tx.timestamp, signature |-> tx.signature]

\* createReward with payer and payee exchanged.
createRewardSwapped(minerAddress, rewardAmount, t) ==
    Transaction(rewardAmount, minerAddress, "MINING_REWARD", 0, "REWARD", t)

createReward(minerAddress, rewardAmount, t) ==
    Transaction(rewardAmount, "MINING_REWARD", minerAddress, 0, "REWARD", t)

createGenesis(t) ==
    Transaction(genesisAmount, "genesis", "satoshi", 0, "GENESIS", t)

\* createSign('SHA256').update(tx.toString()).sign(privateKey): the signature
\* names the owner of the key and the message it was made over.
Sign(tx, keyOwner) == [signer |-> keyOwner, msg |-> toString(tx)]

\* createVerify('SHA256').update(tx.toString()).verify(publicKey, signature)
Verify(tx, publicKey) ==
    /\ tx.signature # NoSig
    /\ tx.signature = Sign(tx, publicKey)

\* ChainController.createTransaction: builds the transaction at time t, signs
\* it with the given private key and returns it when the signature verifies
\* under the payer's public key, null (NoTx) otherwise.
createTransaction(amount, payerPublicKey, payerPrivateKeyOwner, payeePublicKey, fee, t) ==
    LET transaction == Transaction(amount, payerPublicKey, payeePublicKey, fee, "REGULAR", t)
        signed == setSignature(transaction, Sign(transaction, payerPrivateKeyOwner))
    IN  IF Verify(signed, payerPublicKey) THEN signed ELSE NoTx

(***************************************************************************)
(* Block                                                                   *)
(***************************************************************************)
Block(prevHash, transactions, minerAddress, ts, nonce) ==
    [prevHash |-> prevHash, transactions |-> transactions,
     minerAddress |-> minerAddress, ts |-> ts, nonce |-> nonce,
     hashCache |-> NoHash]

calculateHash(block) ==
    [prevHash |-> block.prevHash,
     transactions |-> [i \in DOMAIN block.transactions |-> toJSON(block.transactions[i])],
     ts |-> block.ts, nonce |-> block.nonce, minerAddress |-> block.minerAddress]

\* The hash getter recomputing the digest on every read.
hashRecomputed(block) == calculateHash(block)

hash(block) ==
    IF block.hashCache # NoHash THEN block.hashCache ELSE calculateHash(block)

setHash(block, h) == [block EXCEPT !.hashCache = h]

\* Block.toJSON
blockToJSON(block) ==
    [prevHash |-> block.prevHash,
     transactions |-> [i \in DOMAIN block.transactions |-> toJSON(block.transactions[i])],
     ts |-> block.ts, nonce |-> block.nonce, minerAddress |-> block.minerAddress,
     hash |-> hash(block)]

\* PersistenceService.reconstructBlocks, for one saved block: the type of a
\* transaction is not saved and comes back as REGULAR.
reconstructTransaction(txData) ==
    LET tx == Transaction(txData.amount, txData.payer, txData.payee, txData.fee,
                          "REGULAR", txData.timestamp)
    IN  IF txData.signature # NoSig THEN setSignature(tx, txData.signature) ELSE tx

reconstructBlock(blockData) ==
    setHash(Block(blockData.prevHash,
                  [i \in DOMAIN blockData.transactions |->
                      reconstructTransaction(blockData.transactions[i])],
                  blockData.minerAddress, blockData.ts, blockData.nonce),
            blockData.hash)

\* PersistenceService.exportToJSON, parsed again: the blocks array.
exportToJSON(blocks) == [i \in DOMAIN blocks |-> blockToJSON(blocks[i])]

\* PersistenceService.reconstructBlocks
reconstructBlocks(data) == [i \in DOMAIN data |-> reconstructBlock(data[i])]

\* The number of leading '0' hex characters of a digest, up to maxDifficulty.
PowMix(h) == h.nonce + h.ts + Len(h.transactions)

LeadingZeros(h) ==
    CHOOSE k \in 0..maxDifficulty :
        /\ PowMix(h) % (2^k) = 0
        /\ (k = maxDifficulty \/ PowMix(h) % (2^(k+1)) # 0)

\* A target met only by exactly d leading zeros.
MeetsTargetExactly(h, d) == LeadingZeros(h) = d

\* hash.substring(0, difficulty) === '0'.repeat(difficulty)
MeetsTarget(h, d) == LeadingZeros(h) >= d

(***************************************************************************)
(* MempoolController                                                       *)
(***************************************************************************)
\* fee * 1000 / (age + 1), age = (Date.now() - timestamp) / 1000
calculatePriority(tx, t) ==
    [num |-> tx.fee * 1000, den |-> (t - tx.timestamp) + 1]

\* p < q for two priorities (denominators are positive)
PriorityLess(p, q) == p.num * q.den < q.num * p.den

\* transaction.fee <= lowestPriority.priority
FeeAtMostPriority(fee, p) == fee * p.den <= p.num

\* One step of the stable sort: x goes before the first entry of strictly
\* lower priority, after every entry of equal or higher priority.
InsertByPriority(sorted, x) ==
    LET lower == {i \in DOMAIN sorted : PriorityLess(sorted[i].priority, x.priority)}
        pos == IF lower = {} THEN Len(sorted) + 1
               ELSE CHOOSE i \in lower : \A j \in lower : i <= j
    IN  SubSeq(sorted, 1, pos - 1) \o <<x>> \o SubSeq(sorted, pos, Len(sorted))

RECURSIVE SortFrom(_, _)
SortFrom(sorted, rest) ==
    IF rest = <<>> THEN sorted
    ELSE SortFrom(InsertByPriority(sorted, Head(rest)), Tail(rest))

\* The pool left in arrival order.
keepArrivalOrder(pool) == pool

\* pendingTransactions.sort((a, b) => b.priority - a.priority), a stable sort
sortByPriority(pool) == SortFrom(<<>>, pool)

getLowestPriority(pool) == pool[Len(pool)]

\* pop() that removes nothing.
removeNothingFrom(pool) == pool

removeLowestPriority(pool) == SubSeq(pool, 1, Len(pool) - 1)

\* Whether a full pool turns the newcomer away.
RejectsWhenFull(pool, tx) ==
    FeeAtMostPriority(tx.fee, getLowestPriority(pool).priority)

\* addTransaction dropping the lowest entry of a full pool before it decides.
addTransactionEvictFirst(pool, tx, t, capacity) ==
    LET pending == [transaction |-> tx, priority |-> calculatePriority(tx, t)]
    IN  IF Len(pool) >= capacity
        THEN IF RejectsWhenFull(pool, tx)
             THEN [ok |-> FALSE, pool |-> removeLowestPriority(pool)]
             ELSE [ok |-> TRUE,
                   pool |-> sortByPriority(Append(removeLowestPriority(pool), pending))]
        ELSE [ok |-> TRUE, pool |-> sortByPriority(Append(pool, pending))]

\* The result of addTransaction on a pool constructed with the given
\* capacity: [ok |-> returned value, pool |-> pool after]
addTransactionWithin(pool, tx, t, capacity) ==
    LET pending == [transaction |-> tx, priority |-> calculatePriority(tx, t)]
    IN  IF Len(pool) >= capacity
        THEN IF RejectsWhenFull(pool, tx)
             THEN [ok |-> FALSE, pool |-> pool]
             ELSE [ok |-> TRUE,
                   pool |-> sortByPriority(Append(removeLowestPriority(pool), pending))]
        ELSE [ok |-> TRUE, pool |-> sortByPriority(Append(pool, pending))]

\* addTransaction on the pool of capacity maxPoolSize
addTransaction(pool, tx, t) == addTransactionWithin(pool, tx, t, maxPoolSize)

\* getTransactionsForBlock dropping one entry more than it hands out.
getTransactionsForBlockSkipping(pool, maxTransactions) ==
    [transactions |->
        [i \in 1..Min(maxTransactions, Len(pool)) |-> pool[i].transaction],
     pool |-> SubSeq(pool, maxTransactions + 2, Len(pool))]

\* getTransactionsForBlock leaving the batch in the pool.
getTransactionsForBlockKeeping(pool, maxTransactions) ==
    [transactions |->
        [i \in 1..Min(maxTransactions, Len(pool)) |-> pool[i].transaction],
     pool |-> pool]

\* getTransactionsForBlock handing out the whole pool.
getTransactionsForBlockAll(pool, maxTransactions) ==
    [transactions |-> [i \in DOMAIN pool |-> pool[i].transaction], pool |-> <<>>]

\* getTransactionsForBlock taking the batch from the lowest-priority end.
getTransactionsForBlockLowest(pool, maxTransactions) ==
    LET k == Min(maxTransactions, Len(pool))
    IN  [transactions |-> [i \in 1..k |-> pool[Len(pool) - k + i].transaction],
         pool |-> SubSeq(pool, 1, Len(pool) - k)]

\* [transactions |-> the batch, pool |-> pool after]
getTransactionsForBlock(pool, maxTransactions) ==
    [transactions |->
        [i \in 1..Min(maxTransactions, Len(pool)) |-> pool[i].transaction],
     pool |-> SubSeq(pool, maxTransactions + 1, Len(pool))]

getPendingCount(pool) == Len(pool)

hasTransaction(pool, tx) ==
    \E i \in DOMAIN pool : toString(pool[i].transaction) = toString(tx)

(***************************************************************************)
(* ChainController                                                         *)
(***************************************************************************)
getBalance(bal, address) ==
    IF address \in DOMAIN bal THEN bal[address] ELSE 0

\* The new value stored in place of the sum.
updateBalanceReplacing(bal, address, amount) ==
    [a \in DOMAIN bal \cup {address} |-> IF a = address THEN amount ELSE bal[a]]

\* this.balances.set(address, this.getBalance(address) + amount)
updateBalance(bal, address, amount) ==
    [a \in DOMAIN bal \cup {address} |->
        IF a = address THEN getBalance(bal, address) + amount ELSE bal[a]]

\* The loop body with the fee left out of the payer's debit.
applyTransactionAmountOnly(bal, tx) ==
    IF tx.type # "REWARD" /\ tx.type # "GENESIS"
    THEN updateBalance(updateBalance(bal, tx.payer, -tx.amount), tx.payee, tx.amount)
    ELSE updateBalance(bal, tx.payee, tx.amount)

\* The loop body with the payer never debited.
applyTransactionCreditOnly(bal, tx) == updateBalance(bal, tx.payee, tx.amount)

\* The body of the loop of processBlockTransactions.
applyTransaction(bal, tx) ==
    IF tx.type # "REWARD" /\ tx.type # "GENESIS"
    THEN updateBalance(updateBalance(bal, tx.payer, -(tx.amount + tx.fee)),
                       tx.payee, tx.amount)
    ELSE updateBalance(bal, tx.payee, tx.amount)

RECURSIVE applyAll(_, _)
applyAll(bal, txs) ==
    IF txs = <<>> THEN bal
    ELSE applyAll(applyTransaction(bal, Head(txs)), Tail(txs))

processBlockTransactions(bal, block) == applyAll(bal, block.transactions)

\* validateTransaction with the balance check alone.
validateTransactionBalanceOnly(bal, tx) ==
    IF tx.type = "REWARD" \/ tx.type = "GENESIS"
    THEN [valid |-> TRUE, reason |-> ""]
    ELSE IF getBalance(bal, tx.payer) < getTotalCost(tx)
    THEN [valid |-> FALSE, reason |-> "Insufficient balance"]
    ELSE [valid |-> TRUE, reason |-> ""]

\* validateTransaction without its balance check.
validateTransactionNoBalanceCheck(bal, tx) ==
    IF tx.type = "REWARD" \/ tx.type = "GENESIS"
    THEN [valid |-> TRUE, reason |-> ""]
    ELSE IF tx.amount <= 0
    THEN [valid |-> FALSE, reason |-> "Transaction amount must be positive"]
    ELSE IF tx.fee < 0
    THEN [valid |-> FALSE, reason |-> "Transaction fee cannot be negative"]
    ELSE [valid |-> TRUE, reason |-> ""]

validateTransaction(bal, tx) ==
    IF tx.type = "REWARD" \/ tx.type = "GENESIS"
    THEN [valid |-> TRUE, reason |-> "", out |-> <<>>]
    ELSE IF getBalance(bal, tx.payer) < getTotalCost(tx)
    THEN [valid |-> FALSE, reason |-> "Insufficient balance"]
    ELSE IF tx.amount <= 0
    THEN [valid |-> FALSE, reason |-> "Transaction amount must be positive"]
    ELSE IF tx.fee < 0
    THEN [valid |-> FALSE, reason |-> "Transaction fee cannot be negative"]
    ELSE [valid |-> TRUE, reason |-> "", out |-> <<>>]

\* The loop leaving with the hash of its first attempt.
mineLoopFirstTry(block, solution, d) ==
    LET b == [block EXCEPT !.nonce = block.nonce + solution]
    IN  setHash(b, calculateHash(b))

\* The proof-of-work loop: nonce = nonce + solution, solution = 1, 2, 3, ...
RECURSIVE mineLoop(_, _, _)
mineLoop(block, solution, d) ==
    LET b == [block EXCEPT !.nonce = block.nonce + solution]
        h == calculateHash(b)
    IN  IF MeetsTarget(h, d) THEN setHash(b, h)
        ELSE mineLoop(b, solution + 1, d)

mine(block, d) == mineLoop(block, 1, d)

getLastBlock(ch) == ch[Len(ch)]

\* The new block put in front of the chain.
pushFront(ch, block) == <<block>> \o ch

\* this.chain.push(newBlock)
push(ch, block) == Append(ch, block)

\* A new block linked to the first block instead of the last one.
tipHashOfFirst(ch) == hash(ch[1])

\* The previous-hash of a new block: this.getLastBlock().hash
tipHash(ch) == hash(getLastBlock(ch))

\* The fee total taken as nothing.
SumFeesNone(txs) == 0

RECURSIVE SumFees(_)
SumFees(txs) ==
    IF txs = <<>> THEN 0 ELSE Head(txs).fee + SumFees(Tail(txs))

\* isChainValid looking at the hash links alone.
isChainValidLinksOnly(ch, d) ==
    \A i \in 2..Len(ch) : ch[i].prevHash = hash(ch[i-1])

isChainValid(ch, d) ==
    \A i \in 2..Len(ch) :
        /\ ch[i].prevHash = hash(ch[i-1])
        /\ MeetsTarget(hash(ch[i]), d)

\* The clamp without its lower end.
clampDifficultyAbove(value) == Min(maxDifficulty, value)

getDifficulty(d) == d

\* The change of the balance of address that getBalanceHistory books for the
\* transactions of one block.
RECURSIVE historyDelta(_, _)
historyDelta(txs, address) ==
    IF txs = <<>> THEN 0
    ELSE (IF Head(txs).payer = address THEN -getTotalCost(Head(txs)) ELSE 0)
         + (IF Head(txs).payee = address THEN Head(txs).amount ELSE 0)
         + historyDelta(Tail(txs), address)

\* The running balance after the blocks at heights 0 .. Len(ch) - 1.
RECURSIVE historyBalance(_, _)
historyBalance(ch, address) ==
    IF ch = <<>> THEN 0
    ELSE historyBalance(SubSeq(ch, 1, Len(ch) - 1), address)
         + historyDelta(ch[Len(ch)].transactions, address)

\* getBalanceHistory with heights counted from 1.
getBalanceHistoryFromOne(ch, address) ==
    [i \in 1..Len(ch) |->
        [address |-> address,
         balance |-> historyBalance(SubSeq(ch, 1, i), address),
         timestamp |-> ch[i].ts,
         blockHeight |-> i]]

\* Entry i of the sequence is the entry for this.chain[i - 1].
getBalanceHistory(ch, address) ==
    [i \in 1..Len(ch) |->
        [address |-> address,
         balance |-> historyBalance(SubSeq(ch, 1, i), address),
         timestamp |-> ch[i].ts,
         blockHeight |-> i - 1]]

clampDifficulty(value) == Max(minDifficulty, Min(maxDifficulty, value))

\* new Block('', [genesisTransaction], 'GENESIS')
createGenesisBlock(t, seed) == Block(EmptyHash, <<createGenesis(t)>>, "GENESIS", t, seed)

\* The genesis credit booked on the payer of the genesis transaction.
genesisBalancesOnPayer == updateBalance(<<>>, "genesis", genesisAmount)

\* this.updateBalance('satoshi', 100), on the empty table
genesisBalances == updateBalance(<<>>, "satoshi", genesisAmount)

\* The fields of a LiveSimulationService after construction; timers holds,
\* for each scheduled setTimeout callback of its mineBlock, the miner key the
\* callback has captured.
LiveSimulationService ==
    [isRunning |-> FALSE, isMining |-> FALSE, txFrequency |-> 2000,
     miningThreshold |-> 8, currentMinerIndex |-> 0, timers |-> <<>>]

(***************************************************************************)
(* Initial state: the engine after construction.                           *)
(***************************************************************************)
Init ==
    /\ now = 0
    /\ \E seed \in NonceSeeds : chain = <<createGenesisBlock(0, seed)>>
    /\ mempool = <<>>
    /\ balances = genesisBalances
    /\ difficulty = initialDifficulty
    /\ last = [op |-> "construct", ret |-> TRUE, reason |-> "", out |-> <<>>]
    /\ candidates = <<>>
    /\ sim = LiveSimulationService

(***************************************************************************)
(* The transactions a caller can hand in at time t.                        *)
(***************************************************************************)
\* REGULAR transactions: built with new Transaction(...) and left unsigned,
\* or built and signed by createTransaction with the payer's own key.
RegularInputs(t) ==
    UNION { { Transaction(a, p, q, f, "REGULAR", ts),
              createTransaction(a, p, p, q, f, ts) } :
            a \in Amounts, p \in Payers, q \in Payees, f \in Fees, ts \in 0..t }

\* Transactions a caller builds with the REWARD or GENESIS type.
SyntheticPayer(type) == IF type = "REWARD" THEN "MINING_REWARD" ELSE "genesis"

ExemptInputs(t) ==
    { Transaction(a, SyntheticPayer(ty), q, f, ty, ts) :
        a \in Amounts, q \in Payees, f \in Fees, ty \in {"REWARD", "GENESIS"}, ts \in 0..t }

TxInputs(t) == RegularInputs(t) \cup ExemptInputs(t)

\* Transactions that were ever accepted and are still pending or confirmed.
CoinbaseFree(block) == SubSeq(block.transactions, 1, Len(block.transactions) - 1)

RECURSIVE SubmittedInChain(_)
SubmittedInChain(ch) ==
    IF Len(ch) <= 1 THEN 0
    ELSE Len(CoinbaseFree(ch[Len(ch)])) + SubmittedInChain(SubSeq(ch, 1, Len(ch) - 1))

(***************************************************************************)
(* Operations                                                              *)
(***************************************************************************)
\* addTransactionToMempool(transaction) on an engine whose mempool has the
\* given capacity.
SubmitWithin(tx, capacity) ==
    /\ LET validation == validateTransaction(balances, tx)
           added == addTransactionWithin(mempool, tx, now, capacity)
       IN  IF ~validation.valid
           THEN /\ mempool' = mempool
                /\ last' = [op |-> "addTransactionToMempool", ret |-> FALSE,
                            reason |-> validation.reason, out |-> <<>>]
           ELSE /\ mempool' = added.pool
                /\ last' = [op |-> "addTransactionToMempool", ret |-> added.ok,
                            reason |-> "", out |-> <<>>]
    /\ UNCHANGED <<chain, balances, difficulty, now, candidates, sim>>

\* The first conjunct is the bound MaxTxs; the rest is addTransactionToMempool.
AddTransactionToMempool(tx) ==
    /\ \/ Len(mempool) + SubmittedInChain(chain) < MaxTxs
       \/ Len(mempool) >= maxPoolSize
    /\ SubmitWithin(tx, maxPoolSize)

\* mineBlock(minerAddress); seed is the random nonce of the new Block.
MineBlock(minerAddress, seed) ==
    /\ Len(chain) < MaxBlocks
    /\ LET pendingCount == getPendingCount(mempool)
           batch == IF pendingCount > 0
                    THEN getTransactionsForBlock(mempool, maxTransactionsPerBlock)
                    ELSE [transactions |-> <<>>, pool |-> mempool]
           totalFees == SumFees(batch.transactions)
           rewardTransaction == createReward(minerAddress, miningReward + totalFees, now)
           transactions == Append(batch.transactions, rewardTransaction)
           newBlock == mine(Block(tipHash(chain), transactions, minerAddress, now, seed),
                            difficulty)
       IN  /\ mempool' = batch.pool
           /\ chain' = push(chain, newBlock)
           /\ balances' = processBlockTransactions(balances, newBlock)
           /\ last' = [op |-> "mineBlock", ret |-> TRUE, reason |-> "", out |-> <<>>]
    /\ UNCHANGED <<difficulty, now, candidates, sim>>

\* setDifficulty mining every block again under the new difficulty.
SetDifficultyRemining(value) ==
    /\ difficulty' = clampDifficulty(value)
    /\ chain' = [i \in DOMAIN chain |->
                    IF i = 1 THEN chain[1]
                    ELSE mine([chain[i] EXCEPT !.hashCache = NoHash],
                              clampDifficulty(value))]
    /\ UNCHANGED <<mempool, balances, now, last, candidates, sim>>

SetDifficulty(value) ==
    /\ difficulty' = clampDifficulty(value)
    /\ UNCHANGED <<chain, mempool, balances, now, last, candidates, sim>>

\* The clock advances between calls.
Tick ==
    /\ now < MaxTime
    /\ now' = now + 1
    /\ UNCHANGED <<chain, mempool, balances, difficulty, last, candidates, sim>>

Next ==
    \/ \E tx \in TxInputs(now) : AddTransactionToMempool(tx)
    \/ \E minerAddress \in Miners, seed \in NonceSeeds : MineBlock(minerAddress, seed)
    \/ \E value \in DifficultyInputs : SetDifficulty(value)

Spec == Init /\ [][Next]_vars

(***************************************************************************)
(* The mempool on its own (getMempool() hands it out): addTransaction,     *)
(* getTransactionsForBlock and clear called directly, with the clock       *)
(* advancing between calls.                                                *)
(***************************************************************************)
PoolInputs(t) ==
    { createTransaction(a, "satoshi", "satoshi", q, f, ts) :
        a \in Amounts, q \in Payees, f \in PoolFees, ts \in 0..t }

PoolAdd(tx) ==
    /\ LET added == addTransaction(mempool, tx, now)
       IN  /\ mempool' = added.pool
           /\ last' = [op |-> "addTransaction", ret |-> added.ok,
                       reason |-> "", out |-> <<>>]
    /\ UNCHANGED <<chain, balances, difficulty, now, candidates, sim>>

PoolDrain(maxTransactions) ==
    /\ LET batch == getTransactionsForBlock(mempool, maxTransactions)
       IN  /\ mempool' = batch.pool
           /\ last' = [op |-> "getTransactionsForBlock", ret |-> TRUE,
                       reason |-> "", out |-> batch.transactions]
    /\ UNCHANGED <<chain, balances, difficulty, now, candidates, sim>>

PoolClear ==
    /\ mempool' = <<>>
    /\ last' = [op |-> "clear", ret |-> TRUE, reason |-> "", out |-> <<>>]
    /\ UNCHANGED <<chain, balances, difficulty, now, candidates, sim>>

NextPool ==
    \/ \E tx \in PoolInputs(now) : PoolAdd(tx)
    \/ \E maxTransactions \in DrainCounts : PoolDrain(maxTransactions)
    \/ PoolClear
    \/ Tick

SpecPool == Init /\ [][NextPool]_vars

(***************************************************************************)
(* The engine as ChainController constructs it, with a mempool of the      *)
(* default capacity: transfers of the root identity with different fees    *)
(* are submitted at the time they are built, blocks are mined, and the     *)
(* mempool (getMempool()) is drained directly.                             *)
(***************************************************************************)
BatchInputs(t) ==
    { createTransaction(a, "satoshi", "satoshi", q, f, t) :
        a \in Amounts, q \in Payees, f \in BatchFees }

\* The first conjunct is the bound MaxPending.
BatchSubmit(tx) ==
    /\ Len(mempool) < MaxPending
    /\ SubmitWithin(tx, defaultMaxPoolSize)

NextBatch ==
    \/ \E tx \in BatchInputs(now) : BatchSubmit(tx)
    \/ \E minerAddress \in Miners, seed \in NonceSeeds : MineBlock(minerAddress, seed)
    \/ \E maxTransactions \in BatchDrainCounts : PoolDrain(maxTransactions)

SpecBatch == Init /\ [][NextBatch]_vars

(***************************************************************************)
(* The engine handed REGULAR transactions that are not well formed (an     *)
(* amount that is not positive, a negative fee) next to well-formed ones.  *)
(***************************************************************************)
InvalidInputs(t) ==
    { createTransaction(a, p, p, q, f, ts) :
        a \in InvalidAmounts, p \in Payers, q \in Payees, f \in Fees, ts \in 0..t }
    \cup
    { createTransaction(a, p, p, q, f, ts) :
        a \in Amounts, p \in Payers, q \in Payees, f \in InvalidFees, ts \in 0..t }

SubmitInvalid(tx) == SubmitWithin(tx, maxPoolSize)

NextInvalid ==
    \/ \E tx \in InvalidInputs(now) : SubmitInvalid(tx)
    \/ \E tx \in RegularInputs(now) : AddTransactionToMempool(tx)
    \/ \E minerAddress \in Miners, seed \in NonceSeeds : MineBlock(minerAddress, seed)

SpecInvalid == Init /\ [][NextInvalid]_vars

(***************************************************************************)
(* The engine with its difficulty lowered and raised between blocks.       *)
(***************************************************************************)
NextRetarget ==
    \/ \E tx \in PoolInputs(now) : AddTransactionToMempool(tx)
    \/ \E minerAddress \in Miners, seed \in NonceSeeds : MineBlock(minerAddress, seed)
    \/ \E value \in RetargetInputs : SetDifficulty(value)

SpecRetarget == Init /\ [][NextRetarget]_vars

(***************************************************************************)
(* The engine with setDifficulty called with integers inside and outside   *)
(* of the range 1..8.                                                      *)
(***************************************************************************)
NextClamp ==
    \/ \E tx \in PoolInputs(now) : AddTransactionToMempool(tx)
    \/ \E minerAddress \in Miners, seed \in NonceSeeds : MineBlock(minerAddress, seed)
    \/ \E value \in ClampInputs : SetDifficulty(value)

SpecClamp == Init /\ [][NextClamp]_vars

(***************************************************************************)
(* The engine with the clock advancing between calls, so that blocks and   *)
(* transactions carry different timestamps.                                *)
(***************************************************************************)
NextClock ==
    \/ \E tx \in PoolInputs(now) : AddTransactionToMempool(tx)
    \/ \E minerAddress \in Miners, seed \in NonceSeeds : MineBlock(minerAddress, seed)
    \/ Tick

SpecClock == Init /\ [][NextClock]_vars

(***************************************************************************)
(* The engine with its queries: getBalance, getBalanceHistory and          *)
(* isChainValid only read the engine's state and return a value.           *)
(***************************************************************************)
GetBalance(address) ==
    /\ last' = [op |-> "getBalance", ret |-> TRUE, reason |-> "",
                out |-> <<getBalance(balances, address)>>]
    /\ UNCHANGED <<chain, mempool, balances, difficulty, now, candidates, sim>>

GetBalanceHistory(address) ==
    /\ last' = [op |-> "getBalanceHistory", ret |-> TRUE, reason |-> "",
                out |-> getBalanceHistory(chain, address)]
    /\ UNCHANGED <<chain, mempool, balances, difficulty, now, candidates, sim>>

IsChainValid ==
    /\ last' = [op |-> "isChainValid", ret |-> isChainValid(chain, difficulty),
                reason |-> "", out |-> <<>>]
    /\ UNCHANGED <<chain, mempool, balances, difficulty, now, candidates, sim>>

NextQuery ==
    \/ \E tx \in PoolInputs(now) : AddTransactionToMempool(tx)
    \/ \E minerAddress \in Miners, seed \in NonceSeeds : MineBlock(minerAddress, seed)
    \/ \E value \in DifficultyInputs : SetDifficulty(value)
    \/ \E address \in QueryAddresses : GetBalance(address)
    \/ \E address \in QueryAddresses : GetBalanceHistory(address)
    \/ IsChainValid

SpecQuery == Init /\ [][NextQuery]_vars

(***************************************************************************)
(* mineBlock followed through its proof-of-work loop, one iteration per    *)
(* step.  A call runs to completion: the loop is synchronous, so no timer  *)
(* callback and no other call runs before it has returned.                 *)
(***************************************************************************)
\* No mineBlock call is on the stack: the next handler may run.
Idle == candidates = <<>>

CurrentCall == candidates[Len(candidates)]

\* The nonce left as it is.
keepNonce(block, solution) == block

\* block.nonce = block.nonce + solution
tryNonce(block, solution) == [block EXCEPT !.nonce = block.nonce + solution]

\* mineBlock up to the call of mine: the batch is drained, the coinbase
\* appended and the candidate block built.  origin tells a direct call from
\* the one made in the setTimeout callback of LiveSimulationService.
DrainAndBuild(pool, minerAddress, seed, origin) ==
    LET pendingCount == getPendingCount(pool)
        batch == IF pendingCount > 0
                 THEN getTransactionsForBlock(pool, maxTransactionsPerBlock)
                 ELSE [transactions |-> <<>>, pool |-> pool]
        totalFees == SumFees(batch.transactions)
        rewardTransaction == createReward(minerAddress, miningReward + totalFees, now)
        transactions == Append(batch.transactions, rewardTransaction)
        newBlock == Block(tipHash(chain), transactions, minerAddress, now, seed)
    IN  /\ mempool' = batch.pool
        /\ candidates' = Append(candidates,
                             [block |-> newBlock, solution |-> 1, origin |-> origin,
                              pushed |-> FALSE, applied |-> 0])

BeginMineBlock(minerAddress, seed, origin) ==
    /\ DrainAndBuild(mempool, minerAddress, seed, origin)
    /\ UNCHANGED <<chain, balances, difficulty, now, last, sim>>

\* The bound on the blocks mined and being mined.
Room(blocks) == Len(chain) + Len(candidates) < blocks

\* The callback returning with isMining still set.
finallyKeep(s, origin) == s

\* finally { this.isMining = false }, when the call that returns is the one
\* made in the setTimeout callback
finallyReset(s, origin) ==
    IF origin = "timer" THEN [s EXCEPT !.isMining = FALSE] ELSE s

\* One iteration of the loop of mine; on success the rest of mineBlock:
\* the block is pushed, its transactions are replayed and the call returns
\* (the setTimeout callback then resets isMining in its finally clause).
MineAttempt ==
    /\ candidates # <<>>
    /\ CurrentCall.solution <= MaxAttempts
    /\ LET call == CurrentCall
           block == tryNonce(call.block, call.solution)
           h == calculateHash(block)
       IN  IF MeetsTarget(h, difficulty)
           THEN /\ chain' = push(chain, setHash(block, h))
                /\ balances' = processBlockTransactions(balances, setHash(block, h))
                /\ candidates' = SubSeq(candidates, 1, Len(candidates) - 1)
                /\ last' = [op |-> "mineBlock", ret |-> TRUE, reason |-> "", out |-> <<>>]
                /\ sim' = finallyReset(sim, call.origin)
           ELSE /\ candidates' = [candidates EXCEPT ![Len(candidates)] =
                                     [call EXCEPT !.block = block, !.solution = @ + 1]]
                /\ UNCHANGED <<chain, balances, last, sim>>
    /\ UNCHANGED <<mempool, difficulty, now>>

MineInputs(t) == { createTransaction(a, "satoshi", "satoshi", q, 1, t) :
                     a \in Amounts, q \in Payees }

NextMine ==
    \/ \E tx \in MineInputs(now) : Idle /\ AddTransactionToMempool(tx)
    \/ \E value \in MineDifficulties : Idle /\ SetDifficulty(value)
    \/ \E minerAddress \in Miners, seed \in NonceSeeds :
          Idle /\ Room(MaxBlocks) /\ BeginMineBlock(minerAddress, seed, "direct")
    \/ MineAttempt

SpecMine == Init /\ [][NextMine]_vars

\* The loop of mine is a synchronous loop: it keeps running until it leaves.
SpecMineFair == SpecMine /\ WF_vars(MineAttempt)

(***************************************************************************)
(* Transfers small enough for the payer to afford them more than once.     *)
(***************************************************************************)
ReplayInputs(t) ==
    { createTransaction(a, "satoshi", "satoshi", q, f, t) :
        a \in ReplayAmounts, q \in Payees, f \in Fees }

NextReplay ==
    \/ \E tx \in ReplayInputs(now) : AddTransactionToMempool(tx)
    \/ \E minerAddress \in Miners, seed \in NonceSeeds : MineBlock(minerAddress, seed)
    \/ \E value \in DifficultyInputs : SetDifficulty(value)

SpecReplay == Init /\ [][NextReplay]_vars

(***************************************************************************)
(* The end of mineBlock followed write by write: chain.push(newBlock),     *)
(* then one step of the loop of processBlockTransactions per transaction.  *)
(* Readers are the calls and callbacks that run when no call is on the     *)
(* stack: getBalance, getBalanceHistory, isChainValid, the render of the   *)
(* display interval, addTransactionToMempool.                              *)
(***************************************************************************)
\* The loop of processBlockTransactions left after its first transaction.
replayCutShort(call) == call.applied >= 1

\* for (const transaction of block.transactions) has visited every one
replayComplete(call) == call.applied = Len(call.block.transactions)

\* One iteration of the loop of mine; on success this.chain.push(newBlock).
MinePush ==
    /\ candidates # <<>>
    /\ ~CurrentCall.pushed
    /\ CurrentCall.solution <= MaxAttempts
    /\ LET call == CurrentCall
           block == tryNonce(call.block, call.solution)
           h == calculateHash(block)
       IN  IF MeetsTarget(h, difficulty)
           THEN /\ chain' = push(chain, setHash(block, h))
                /\ candidates' = [candidates EXCEPT ![Len(candidates)] =
                                     [call EXCEPT !.block = setHash(block, h),
                                                  !.pushed = TRUE]]
           ELSE /\ candidates' = [candidates EXCEPT ![Len(candidates)] =
                                     [call EXCEPT !.block = block, !.solution = @ + 1]]
                /\ chain' = chain
    /\ UNCHANGED <<mempool, balances, difficulty, now, last, sim>>

\* One iteration of the loop of processBlockTransactions; after the last
\* one mineBlock returns.
ReplayStep ==
    /\ candidates # <<>>
    /\ CurrentCall.pushed
    /\ LET call == CurrentCall
           applied == [call EXCEPT !.applied = @ + 1]
       IN  /\ balances' = applyTransaction(balances, call.block.transactions[call.applied + 1])
           /\ IF replayComplete(applied)
              THEN /\ candidates' = SubSeq(candidates, 1, Len(candidates) - 1)
                   /\ last' = [op |-> "mineBlock", ret |-> TRUE, reason |-> "",
                               out |-> <<>>]
                   /\ sim' = finallyReset(sim, call.origin)
              ELSE /\ candidates' = [candidates EXCEPT ![Len(candidates)] = applied]
                   /\ UNCHANGED <<last, sim>>
    /\ UNCHANGED <<chain, mempool, difficulty, now>>

\* LiveSimulationView.render: chain length, pending count, difficulty and
\* isChainValid are read.
Render ==
    /\ last' = [op |-> "render", ret |-> isChainValid(chain, difficulty), reason |-> "",
                out |-> <<Len(chain), getPendingCount(mempool), getDifficulty(difficulty)>>]
    /\ UNCHANGED <<chain, mempool, balances, difficulty, now, candidates, sim>>

NextAtomic ==
    \/ \E tx \in PoolInputs(now) : Idle /\ AddTransactionToMempool(tx)
    \/ \E minerAddress \in Miners, seed \in NonceSeeds :
          Idle /\ Room(MaxBlocks) /\ BeginMineBlock(minerAddress, seed, "direct")
    \/ MinePush
    \/ ReplayStep
    \/ \E address \in QueryAddresses : Idle /\ GetBalance(address)
    \/ \E address \in QueryAddresses : Idle /\ GetBalanceHistory(address)
    \/ Idle /\ IsChainValid
    \/ Idle /\ Render

SpecAtomic == Init /\ [][NextAtomic]_vars

(***************************************************************************)
(* LiveSimulationService: start and stop, the two setInterval callbacks    *)
(* and the setTimeout callback of its mineBlock, next to direct calls of   *)
(* ChainController.mineBlock.  Callbacks run one at a time, each to its    *)
(* end, and only when no call is on the stack.                             *)
(***************************************************************************)
\* The isMining check dropped.
NeverScheduled(s) == FALSE

\* if (this.isMining) return, in checkAndMine and in mineBlock
MiningScheduled(s) == s.isMining

speedThreshold(speed) ==
    IF speed = "SLOW" THEN 3 ELSE IF speed = "MEDIUM" THEN 5 ELSE 8

speedFrequency(speed) ==
    IF speed = "SLOW" THEN 5000 ELSE IF speed = "MEDIUM" THEN 2000 ELSE 800

amountPerBot(bal) == getBalance(bal, "satoshi") \div (Len(BotWallets) + 2)

\* satoshiBalance > 50 and amountPerBot >= 10
Seeds(bal) == getBalance(bal, "satoshi") > 50 /\ amountPerBot(bal) >= 10

\* The loop of seedBotWallets: one transfer from satoshi to each bot, each
\* handed to addTransactionToMempool.
RECURSIVE seedLoop(_, _, _, _)
seedLoop(pool, bal, i, t) ==
    IF i > Len(BotWallets) THEN pool
    ELSE LET transaction == createTransaction(amountPerBot(bal), "satoshi", "satoshi",
                                              BotWallets[i], 1, t)
         IN  IF transaction # NoTx /\ validateTransaction(bal, transaction).valid
             THEN seedLoop(addTransactionWithin(pool, transaction, t,
                                                defaultMaxPoolSize).pool, bal, i + 1, t)
             ELSE seedLoop(pool, bal, i + 1, t)

\* start(speed); seedBotWallets ends in a direct mineBlock(satoshi) call.
Start(speed, seed) ==
    /\ ~sim.isRunning
    /\ sim' = [sim EXCEPT !.isRunning = TRUE,
                          !.txFrequency = speedFrequency(speed),
                          !.miningThreshold = speedThreshold(speed)]
    /\ IF Seeds(balances)
       THEN /\ Room(MaxSimBlocks)
            /\ DrainAndBuild(seedLoop(mempool, balances, 1, now), "satoshi", seed, "seed")
       ELSE UNCHANGED <<mempool, candidates>>
    /\ UNCHANGED <<chain, balances, difficulty, now, last>>

\* stop(): the two intervals are cleared, a scheduled timeout is not.
Stop ==
    /\ sim.isRunning
    /\ sim' = [sim EXCEPT !.isRunning = FALSE]
    /\ UNCHANGED <<chain, mempool, balances, difficulty, now, last, candidates>>

\* The transactionInterval callback: generateRandomTransaction unless a
\* mining is scheduled.  fromIndex, toIndex, amount and fee are its random
\* draws.
GenerateTick(fromIndex, toIndex, amount, fee) ==
    /\ sim.isRunning
    /\ Len(mempool) < MaxSimPending
    /\ fromIndex # toIndex
    /\ LET senderBalance == getBalance(balances, BotWallets[fromIndex])
           maxAmount == (senderBalance * 3) \div 10
       IN  /\ amount <= Max(1, maxAmount)
           /\ IF sim.isMining \/ senderBalance < 5 \/ senderBalance < amount + fee
              THEN UNCHANGED vars
              ELSE SubmitWithin(createTransaction(amount, BotWallets[fromIndex],
                                                  BotWallets[fromIndex],
                                                  BotWallets[toIndex], fee, now),
                                defaultMaxPoolSize)

\* The miningCheckInterval callback: checkAndMine, and the synchronous part
\* of the service's mineBlock, which schedules the timeout.
CheckAndMine ==
    /\ sim.isRunning
    /\ IF MiningScheduled(sim) \/ getPendingCount(mempool) < sim.miningThreshold
       THEN UNCHANGED sim
       ELSE LET index == sim.currentMinerIndex % Len(BotWallets)
            IN  sim' = [sim EXCEPT !.isMining = TRUE,
                                   !.currentMinerIndex = index + 1,
                                   !.timers = Append(@, BotWallets[index + 1])]
    /\ UNCHANGED <<chain, mempool, balances, difficulty, now, last, candidates>>

\* The setTimeout callback up to the loop of mine; its finally clause runs
\* when the call returns.
TimerFire(seed) ==
    /\ sim.timers # <<>>
    /\ DrainAndBuild(mempool, Head(sim.timers), seed, "timer")
    /\ sim' = [sim EXCEPT !.timers = Tail(@)]
    /\ UNCHANGED <<chain, balances, difficulty, now, last>>

NextSim ==
    \/ \E speed \in Speeds, seed \in NonceSeeds : Idle /\ Start(speed, seed)
    \/ Idle /\ Stop
    \/ \E fromIndex \in DOMAIN BotWallets, toIndex \in DOMAIN BotWallets,
          amount \in SimAmounts, fee \in SimFees :
          Idle /\ GenerateTick(fromIndex, toIndex, amount, fee)
    \/ Idle /\ CheckAndMine
    \/ \E seed \in NonceSeeds : Idle /\ Room(MaxSimBlocks) /\ TimerFire(seed)
    \/ \E minerAddress \in Miners, seed \in NonceSeeds :
          Idle /\ Room(MaxSimBlocks) /\ BeginMineBlock(minerAddress, seed, "direct")
    \/ MineAttempt

SpecSim == Init /\ [][NextSim]_vars

\* The bound on the blocks mined, being mined and scheduled to be mined: a
\* scheduled callback always finds room.
Reserved(blocks) == Len(chain) + Len(candidates) + Len(sim.timers) < blocks

TimerRuns == \E seed \in NonceSeeds : Idle /\ TimerFire(seed)

NextLive ==
    \/ \E speed \in Speeds, seed \in NonceSeeds :
          Idle /\ Reserved(MaxSimBlocks) /\ Start(speed, seed)
    \/ Idle /\ Stop
    \/ \E fromIndex \in DOMAIN BotWallets, toIndex \in DOMAIN BotWallets,
          amount \in SimAmounts, fee \in SimFees :
          Idle /\ GenerateTick(fromIndex, toIndex, amount, fee)
    \/ Idle /\ Reserved(MaxSimBlocks) /\ CheckAndMine
    \/ TimerRuns
    \/ \E minerAddress \in Miners, seed \in NonceSeeds :
          Idle /\ Reserved(MaxSimBlocks) /\ BeginMineBlock(minerAddress, seed, "direct")
    \/ MineAttempt

\* What an iteration of the loop of mine does to the call stack: the call
\* returns when the digest meets the target, and tries the next nonce
\* otherwise.
MineTurn ==
    /\ candidates # <<>>
    /\ CurrentCall.solution <= MaxAttempts
    /\ LET call == CurrentCall
           block == tryNonce(call.block, call.solution)
       IN  candidates' =
             IF MeetsTarget(calculateHash(block), difficulty)
             THEN SubSeq(candidates, 1, Len(candidates) - 1)
             ELSE [candidates EXCEPT ![Len(candidates)] =
                     [call EXCEPT !.block = block, !.solution = @ + 1]]

\* A scheduled timeout callback runs once the stack is empty, and the loop
\* of mine keeps iterating until the call returns.
SpecLive ==
    Init /\ [][NextLive]_vars /\ WF_vars(TimerRuns) /\ WF_candidates(MineTurn)

(***************************************************************************)
(* Tampering: a field of a block already in the chain is overwritten from  *)
(* outside (nonce is a public field, getChain() hands out the blocks and   *)
(* their transaction arrays).  One field of one block is changed per run.  *)
(***************************************************************************)
TamperFields == {"nonce", "transactions", "ts", "minerAddress", "prevHash"}

Tampered(block, field) ==
    CASE field = "nonce" -> [block EXCEPT !.nonce = @ + 1]
      [] field = "transactions" -> [block EXCEPT !.transactions[1].amount = @ + 1]
      [] field = "ts" -> [block EXCEPT !.ts = @ + 1]
      [] field = "minerAddress" -> [block EXCEPT !.minerAddress = "mallory"]
      [] field = "prevHash" -> [block EXCEPT !.prevHash = EmptyHash]

\* Every mined block still has the fields its recorded hash was computed from.
Untampered(ch) == \A i \in 2..Len(ch) : calculateHash(ch[i]) = ch[i].hashCache

Tamper(i, field) ==
    /\ i \in 2..Len(chain)
    /\ Untampered(chain)
    /\ chain' = [chain EXCEPT ![i] = Tampered(chain[i], field)]
    /\ last' = [op |-> "tamper", ret |-> TRUE, reason |-> "", out |-> <<>>]
    /\ UNCHANGED <<mempool, balances, difficulty, now, candidates, sim>>

NextTamper ==
    \/ \E tx \in TxInputs(now) : AddTransactionToMempool(tx)
    \/ \E minerAddress \in Miners, seed \in NonceSeeds : MineBlock(minerAddress, seed)
    \/ \E value \in DifficultyInputs : SetDifficulty(value)
    \/ \E i \in 2..MaxBlocks, field \in TamperFields : Tamper(i, field)

SpecTamper == Init /\ [][NextTamper]_vars

\* Tampering in runs of transfers of the root identity and mining.
NextFreeze ==
    \/ \E tx \in PoolInputs(now) : AddTransactionToMempool(tx)
    \/ \E minerAddress \in Miners, seed \in NonceSeeds : MineBlock(minerAddress, seed)
    \/ \E i \in 2..MaxBlocks, field \in TamperFields : Tamper(i, field)

SpecFreeze == Init /\ [][NextFreeze]_vars

(***************************************************************************)
(* Quantities the properties are stated in.                                *)
(***************************************************************************)
RECURSIVE SumOver(_, _)
SumOver(f, S) ==
    IF S = {} THEN 0
    ELSE LET x == CHOOSE y \in S : TRUE IN f[x] + SumOver(f, S \ {x})

\* The sum of all balances in the balance table.
SumBalances == SumOver(balances, DOMAIN balances)

RECURSIVE Flatten(_)
Flatten(ch) ==
    IF ch = <<>> THEN <<>> ELSE Head(ch).transactions \o Flatten(Tail(ch))

\* Every transaction confirmed in a block, in chain order.
Confirmed == Flatten(chain)

\* The transactions callers handed in: pending ones, and all confirmed ones
\* but the engine's own genesis and coinbase transactions.
RECURSIVE FlattenSubmitted(_)
FlattenSubmitted(ch) ==
    IF ch = <<>> THEN <<>> ELSE CoinbaseFree(Head(ch)) \o FlattenSubmitted(Tail(ch))

ConfirmedSubmitted == FlattenSubmitted(Tail(chain))

Pending == [i \in DOMAIN mempool |-> mempool[i].transaction]

RECURSIVE SumAmounts(_, _)
SumAmounts(txs, type) ==
    IF txs = <<>> THEN 0
    ELSE (IF Head(txs).type = type THEN Head(txs).amount ELSE 0)
         + SumAmounts(Tail(txs), type)

RECURSIVE SumFeesOf(_, _)
SumFeesOf(txs, type) ==
    IF txs = <<>> THEN 0
    ELSE (IF Head(txs).type = type THEN Head(txs).fee ELSE 0)
         + SumFeesOf(Tail(txs), type)

\* Callers handed in REGULAR transactions only, each signed by its payer.
OnlySignedRegular ==
    \A txs \in {Pending, ConfirmedSubmitted} :
        \A i \in DOMAIN txs : txs[i].type = "REGULAR" /\ Verify(txs[i], txs[i].payer)

\* Only REGULAR transactions were confirmed, next to the engine's own
\* genesis and coinbase transactions.
OnlyRegularConfirmed ==
    \A i \in DOMAIN ConfirmedSubmitted : ConfirmedSubmitted[i].type = "REGULAR"

(***************************************************************************)
(* C1.  No address ever has a negative balance: transactions of one payer  *)
(* that together cost more than the payer's confirmed balance are never    *)
(* all confirmed.  Stated for runs in which every submitted transaction    *)
(* is a REGULAR one signed by its payer.                                   *)
(***************************************************************************)
C1_NoNegativeBalance ==
    OnlySignedRegular => \A a \in DOMAIN balances : balances[a] >= 0

(***************************************************************************)
(* C2.  Conservation as claimed: when only REGULAR transactions were       *)
(* confirmed, the sum of all balances is 100 plus the sum of the amounts   *)
(* of all REWARD transactions credited.                                    *)
(***************************************************************************)
C2_ConservationAsClaimed ==
    OnlyRegularConfirmed =>
        SumBalances = 100 + SumAmounts(Confirmed, "REWARD")

(***************************************************************************)
(* C2, amended.  When only REGULAR transactions were confirmed, the sum of *)
(* all balances is 100 plus the sum of the amounts of all REWARD           *)
(* transactions credited, minus the sum of the fees of the confirmed       *)
(* REGULAR transactions (a coinbase amount already contains those fees).   *)
(***************************************************************************)
C2_Conservation ==
    OnlyRegularConfirmed =>
        SumBalances = 100 + SumAmounts(Confirmed, "REWARD")
                          - SumFeesOf(Confirmed, "REGULAR")

C2_Witness ==
    /\ OnlyRegularConfirmed
    /\ \E i \in DOMAIN ConfirmedSubmitted : ConfirmedSubmitted[i].fee > 0
    /\ \E i \in DOMAIN ConfirmedSubmitted : ConfirmedSubmitted[i].fee = 0

(***************************************************************************)
(* C3.  No REGULAR transaction whose signature is absent or is not the     *)
(* payer's signature over its canonical serialization is ever pending or   *)
(* confirmed.                                                              *)
(***************************************************************************)
C3_OnlyValidSignatures ==
    \A txs \in {Pending, ConfirmedSubmitted} :
        \A i \in DOMAIN txs :
            txs[i].type = "REGULAR" => Verify(txs[i], txs[i].payer)

C5_ChainLinks ==
    \A i \in 2..Len(chain) : chain[i].prevHash = hash(chain[i-1])

C5_Witness ==
    /\ Len(chain) >= 3
    /\ difficulty # initialDifficulty
    /\ \E i \in 2..Len(chain) : Len(chain[i].transactions) > 1

(***************************************************************************)
(* C6.  Genesis: a freshly constructed engine (nothing submitted or mined  *)
(* yet) has chain length 1, its only transaction is the GENESIS one        *)
(* crediting the root identity, whose balance is 100, the chain is valid   *)
(* and nothing is pending.                                                 *)
(***************************************************************************)
C6_Genesis ==
    last.op = "construct" =>
        /\ Len(chain) = 1
        /\ Len(chain[1].transactions) = 1
        /\ chain[1].transactions[1].type = "GENESIS"
        /\ getBalance(balances, chain[1].transactions[1].payee) = 100
        /\ getBalance(balances, "satoshi") = 100
        /\ isChainValid(chain, difficulty)
        /\ getPendingCount(mempool) = 0

C6_Witness ==
    /\ last.op = "construct"
    /\ Len(chain) = 1
    /\ chain[1].prevHash = EmptyHash

(***************************************************************************)
(* C7.  The mempool never holds two transactions with the same canonical   *)
(* serialization.                                                          *)
(***************************************************************************)
C7_NoDuplicatePending ==
    \A i, j \in DOMAIN mempool :
        i # j => toString(mempool[i].transaction) # toString(mempool[j].transaction)

(***************************************************************************)
(* C8.  Eviction: with the pool filled to capacity by fee=1 transactions,  *)
(* adding a fee=2 transaction returns true, drops exactly one fee=1 entry  *)
(* and holds the newcomer (size stays at capacity); adding a fee=1         *)
(* transaction returns false and changes nothing.                          *)
(***************************************************************************)
FullOfFeeOne ==
    /\ Len(mempool) = maxPoolSize
    /\ \A i \in DOMAIN mempool : mempool[i].transaction.fee = 1

C8_Eviction ==
    [][\A tx \in PoolInputs(now) :
          (FullOfFeeOne /\ PoolAdd(tx))
          => /\ tx.fee = 2 =>
                  /\ last'.ret = TRUE
                  /\ Len(mempool') = maxPoolSize
                  /\ \E i \in DOMAIN mempool' : mempool'[i].transaction = tx
                  /\ Cardinality({i \in DOMAIN mempool' :
                                    mempool'[i].transaction.fee = 1}) = maxPoolSize - 1
             /\ tx.fee = 1 => (last'.ret = FALSE /\ mempool' = mempool)]_vars

(***************************************************************************)
(* C9.  Tamper detection: once the transactions, nonce, timestamp, miner   *)
(* address or previous hash of a mined block (index i > 0) has been        *)
(* changed, isChainValid() is false.                                       *)
(***************************************************************************)
C9_TamperDetected ==
    [][\A i \in 2..Len(chain), field \in TamperFields :
          Tamper(i, field) => ~isChainValid(chain', difficulty')]_vars

FeesOf(txs) ==
    SumFeesOf(txs, "REGULAR") + SumFeesOf(txs, "REWARD") + SumFeesOf(txs, "GENESIS")

Coinbase(block) == block.transactions[Len(block.transactions)]

C11_MinerReward ==
    [][\A minerAddress \in Miners, seed \in NonceSeeds :
          MineBlock(minerAddress, seed)
          => LET newBlock == chain'[Len(chain')]
             IN  /\ Len(chain') = Len(chain) + 1
                 /\ Coinbase(newBlock).type = "REWARD"
                 /\ Coinbase(newBlock).payee = minerAddress
                 /\ Coinbase(newBlock).amount = 50 + FeesOf(CoinbaseFree(newBlock))
                 /\ CoinbaseFree(newBlock)
                      = SubSeq(Pending, 1, Len(newBlock.transactions) - 1)]_vars

\* A block was mined from two pending transactions, one of them paying a fee.
C11_Witness ==
    /\ last.op = "mineBlock"
    /\ Len(CoinbaseFree(getLastBlock(chain))) = 2
    /\ FeesOf(CoinbaseFree(getLastBlock(chain))) = 1
    /\ Coinbase(getLastBlock(chain)).amount = 51

(***************************************************************************)
(* C12.  Balance replay: after mineBlock appends a block, the balance of   *)
(* each address differs from its value before the call by the replay of    *)
(* the block's transactions: every REGULAR transaction debits its payer by *)
(* amount + fee and credits its payee by amount, every REWARD or GENESIS   *)
(* transaction credits its payee by amount and debits nobody.              *)
(***************************************************************************)
Credit(tx, a) == IF tx.payee = a THEN tx.amount ELSE 0

Debit(tx, a) ==
    IF tx.type = "REGULAR" /\ tx.payer = a THEN tx.amount + tx.fee ELSE 0

RECURSIVE NetEffect(_, _)
NetEffect(txs, a) ==
    IF txs = <<>> THEN 0
    ELSE Credit(Head(txs), a) - Debit(Head(txs), a) + NetEffect(Tail(txs), a)

Parties(txs) == {txs[i].payer : i \in DOMAIN txs} \cup {txs[i].payee : i \in DOMAIN txs}

C12_BalanceReplay ==
    [][\A minerAddress \in Miners, seed \in NonceSeeds :
          MineBlock(minerAddress, seed)
          => LET txs == chain'[Len(chain')].transactions
             IN  \A a \in DOMAIN balances \cup DOMAIN balances' \cup Parties(txs) :
                    getBalance(balances', a)
                      = getBalance(balances, a) + NetEffect(txs, a)]_vars

\* A block holding a REGULAR transaction with a fee and a caller's REWARD
\* transaction was replayed.
C12_Witness ==
    /\ last.op = "mineBlock"
    /\ LET txs == CoinbaseFree(getLastBlock(chain))
       IN  /\ \E i \in DOMAIN txs : txs[i].type = "REGULAR" /\ txs[i].fee > 0
           /\ \E i \in DOMAIN txs : txs[i].type = "REWARD"
    /\ getBalance(balances, "bob") = 120

(***************************************************************************)
(* C13.  Block size: a mineBlock call drains min(10, pendingCount)         *)
(* transactions, taken from the highest-priority end of the mempool in     *)
(* priority order, so the mined block holds at most 10 mempool             *)
(* transactions plus the reward, and pendingCount afterwards is            *)
(* max(0, pendingCount before - 10).                                       *)
(***************************************************************************)
\* The first k entries of the pool are in descending priority and none of
\* the entries behind them has a higher priority.
HighestFirst(pool, k) ==
    \A i \in 1..k : \A j \in (i+1)..Len(pool) :
        ~PriorityLess(pool[i].priority, pool[j].priority)

C13_BlockSize ==
    [][\A minerAddress \in Miners, seed \in NonceSeeds :
          MineBlock(minerAddress, seed)
          => LET pendingCount == getPendingCount(mempool)
                 drained == CoinbaseFree(chain'[Len(chain')])
             IN  /\ Len(drained) = Min(10, pendingCount)
                 /\ drained = SubSeq(Pending, 1, Len(drained))
                 /\ HighestFirst(mempool, Len(drained))
                 /\ Len(chain'[Len(chain')].transactions) <= 10 + 1
                 /\ getPendingCount(mempool') = Max(0, pendingCount - 10)
                 /\ mempool' = SubSeq(mempool, Len(drained) + 1, pendingCount)]_vars

\* A block was mined from more than 10 pending transactions of different
\* fees: it holds 10 of them and one is still pending.
C13_Witness ==
    /\ last.op = "mineBlock"
    /\ Len(CoinbaseFree(getLastBlock(chain))) = 10
    /\ getPendingCount(mempool) = 1
    /\ CoinbaseFree(getLastBlock(chain))[1].fee > CoinbaseFree(getLastBlock(chain))[10].fee
    /\ CoinbaseFree(getLastBlock(chain))[10].fee > mempool[1].transaction.fee

(***************************************************************************)
(* C14.  Priority ordering: transactions with fees 1, 5, 3 submitted in    *)
(* that order at the same age are returned by drain(3) in the order        *)
(* 5, 3, 1; in general, when all pending transactions had the same age at  *)
(* insertion, drain returns them in descending order of fee.               *)
(***************************************************************************)
FeesIn(txs) == [i \in DOMAIN txs |-> txs[i].fee]

\* The pool after transfers with the given fees, built at time t, were added
\* at time t one after the other.
RECURSIVE SubmitAll(_, _, _)
SubmitAll(pool, fees, t) ==
    IF fees = <<>> THEN pool
    ELSE SubmitAll(
           addTransactionWithin(pool,
               createTransaction(60, "satoshi", "satoshi", "bob", Head(fees), t),
               t, defaultMaxPoolSize).pool,
           Tail(fees), t)

EqualAgeAtInsertion ==
    \A i, j \in DOMAIN mempool : mempool[i].priority.den = mempool[j].priority.den

C14_PriorityOrdering ==
    [][\A maxTransactions \in BatchDrainCounts :
          (EqualAgeAtInsertion /\ PoolDrain(maxTransactions))
          => /\ \A i, j \in DOMAIN last'.out :
                    i < j => last'.out[i].fee >= last'.out[j].fee
             /\ mempool = SubmitAll(<<>>, <<1, 5, 3>>, now)
                    => FeesIn(last'.out) = <<5, 3, 1>>
             /\ FeesIn(getTransactionsForBlock(SubmitAll(<<>>, <<1, 5, 3>>, now), 3).transactions)
                    = <<5, 3, 1>>]_vars

\* drain(3) has just emptied a pool that held the fees 1, 5 and 3.
C14_Witness ==
    /\ last.op = "getTransactionsForBlock"
    /\ FeesIn(last.out) = <<5, 3, 1>>
    /\ getPendingCount(mempool) = 0

(***************************************************************************)
(* C15.  drain(maxCount) removes and returns exactly min(maxCount, size)   *)
(* transactions from the highest-priority end in priority order, the       *)
(* transactions left in the pool keep their relative order, and draining   *)
(* more than is available returns all of them and leaves the pool empty.   *)
(***************************************************************************)
C15_Drain ==
    [][\A maxCount \in BatchDrainCounts :
          PoolDrain(maxCount)
          => LET size == getPendingCount(mempool)
                 k == Min(maxCount, size)
             IN  /\ Len(last'.out) = k
                 /\ last'.out = SubSeq(Pending, 1, k)
                 /\ HighestFirst(mempool, k)
                 /\ mempool' = SubSeq(mempool, k + 1, size)
                 /\ maxCount > size => (last'.out = Pending /\ mempool' = <<>>)]_vars

\* drain(3) returned three transactions and left several of different fees.
C15_Witness ==
    /\ last.op = "getTransactionsForBlock"
    /\ Len(last.out) = 3
    /\ getPendingCount(mempool) >= 3
    /\ mempool[1].transaction.fee > mempool[Len(mempool)].transaction.fee
    /\ last.out[1].fee > last.out[3].fee

(***************************************************************************)
(* C16.  Mempool-full rejection: when the pool is at capacity and the      *)
(* newcomer is not admitted (its fee is not above the lowest entry's       *)
(* priority), addTransaction returns false and the pool's contents, order  *)
(* and size are exactly what they were before the call.                    *)
(***************************************************************************)
C16_FullRejection ==
    [][\A tx \in PoolInputs(now) :
          (getPendingCount(mempool) >= maxPoolSize /\ PoolAdd(tx))
          => /\ RejectsWhenFull(mempool, tx) => last'.ret = FALSE
             /\ last'.ret = FALSE => mempool' = mempool
             /\ last'.ret = TRUE =>
                    \E i \in DOMAIN mempool' : mempool'[i].transaction = tx]_vars

\* A full pool holding entries of different fees has just turned a
\* transaction away.
C16_Witness ==
    /\ last.op = "addTransaction"
    /\ last.ret = FALSE
    /\ getPendingCount(mempool) = maxPoolSize
    /\ mempool[1].transaction.fee > mempool[Len(mempool)].transaction.fee

(***************************************************************************)
(* C17.  Bounded capacity: after any sequence of addTransaction,           *)
(* getTransactionsForBlock and clear calls, the number of pending          *)
(* transactions never exceeds the pool's maximum size.                     *)
(***************************************************************************)
C17_BoundedCapacity == getPendingCount(mempool) <= maxPoolSize

\* An addTransaction call on the pool has returned true and the pool is at
\* capacity, holding a transaction that pays a fee.
C17_Witness ==
    /\ last.op = "addTransaction"
    /\ last.ret = TRUE
    /\ getPendingCount(mempool) = maxPoolSize
    /\ mempool[1].transaction.fee > 0
    /\ now > 0

(***************************************************************************)
(* C18.  Validation rejection: a REGULAR transaction with amount <= 0 or   *)
(* with fee < 0 is rejected (the call returns false) whatever the payer's  *)
(* balance, and the rejection changes nothing: chain, balance table,       *)
(* mempool contents and difficulty are the same before and after.          *)
(***************************************************************************)
C18_ValidationRejection ==
    [][\A tx \in InvalidInputs(now) \cup RegularInputs(now) :
          (tx.type = "REGULAR" /\ (tx.amount <= 0 \/ tx.fee < 0)
             /\ SubmitWithin(tx, maxPoolSize))
          => /\ last'.ret = FALSE
             /\ UNCHANGED <<chain, balances, mempool, difficulty>>]_vars

\* A payer who could afford it had a transfer with a negative fee turned
\* away while another transaction was pending.
C18_Witness ==
    /\ last.op = "addTransactionToMempool"
    /\ last.ret = FALSE
    /\ last.reason = "Transaction fee cannot be negative"
    /\ getPendingCount(mempool) > 0
    /\ Len(chain) > 1

(***************************************************************************)
(* C19.  Difficulty satisfaction: the block appended by mineBlock has a    *)
(* frozen hash, the hash of its fields, with at least `difficulty` leading *)
(* zero hex characters, `difficulty` being the engine's difficulty at the  *)
(* time the block is mined.                                                *)
(***************************************************************************)
C19_DifficultySatisfied ==
    [][\A minerAddress \in Miners, seed \in NonceSeeds :
          MineBlock(minerAddress, seed)
          => LET newBlock == chain'[Len(chain')]
             IN  /\ newBlock.hashCache # NoHash
                 /\ newBlock.hashCache = calculateHash(newBlock)
                 /\ hash(newBlock) = newBlock.hashCache
                 /\ LeadingZeros(hash(newBlock)) >= difficulty]_vars

\* A block was mined under the lowered difficulty, with fewer leading zeros
\* than the initial difficulty asks for, after a block mined under it.
C19_Witness ==
    /\ last.op = "mineBlock"
    /\ Len(chain) >= 3
    /\ difficulty < initialDifficulty
    /\ LeadingZeros(hash(getLastBlock(chain))) >= difficulty
    /\ LeadingZeros(hash(getLastBlock(chain))) < initialDifficulty
    /\ LeadingZeros(hash(chain[2])) >= initialDifficulty

(***************************************************************************)
(* C20.  After any sequence of submissions and mineBlock calls in which    *)
(* the difficulty is not above the value under which an existing block was *)
(* mined (it stayed constant or was lowered), isChainValid() returns true. *)
(***************************************************************************)
DifficultiesUsed ==
    {initialDifficulty} \cup {clampDifficulty(value) : value \in RetargetInputs}

\* The difficulties under which mineBlock produces this block.
MinedUnder(block) ==
    {d \in DifficultiesUsed :
        \E seed \in NonceSeeds :
            mine(Block(block.prevHash, block.transactions, block.minerAddress,
                       block.ts, seed), d) = block}

NotRaisedAboveMined ==
    \A i \in 2..Len(chain) : \E d \in MinedUnder(chain[i]) : difficulty <= d

C20_ValidUnlessRaised ==
    NotRaisedAboveMined => isChainValid(chain, difficulty)

\* Two blocks were mined, the first under a higher difficulty than the
\* second, and the difficulty now is below both.
C20_Witness ==
    /\ Len(chain) >= 3
    /\ NotRaisedAboveMined
    /\ initialDifficulty \in MinedUnder(chain[2])
    /\ 3 \in MinedUnder(chain[3])
    /\ initialDifficulty \notin MinedUnder(chain[3])
    /\ difficulty = 2
    /\ Len(chain[3].transactions) > 1

(***************************************************************************)
(* C21.  Retroactive difficulty: isChainValid() judges every block against *)
(* the current difficulty, so raising the difficulty above the number of   *)
(* leading zeros of a mined block's hash makes isChainValid() false with   *)
(* no block altered.                                                       *)
(***************************************************************************)
C21_RetroactiveDifficulty ==
    [][\A value \in RetargetInputs :
          (SetDifficulty(value)
             /\ \E i \in 2..Len(chain) :
                    LeadingZeros(hash(chain[i])) < clampDifficulty(value))
          => /\ chain' = chain
             /\ Untampered(chain')
             /\ ~isChainValid(chain', difficulty')]_vars

\* No block was altered, a block was mined under a difficulty below the
\* current one, and the chain is judged invalid.
C21_Witness ==
    /\ Len(chain) >= 2
    /\ Untampered(chain)
    /\ C5_ChainLinks
    /\ \E i \in 2..Len(chain) :
          /\ \E d \in MinedUnder(chain[i]) : d < difficulty
          /\ LeadingZeros(hash(chain[i])) < difficulty
    /\ ~isChainValid(chain, difficulty)

(***************************************************************************)
(* C22.  setDifficulty(value) sets the difficulty to min(8, max(1, value)):*)
(* after any sequence of setDifficulty calls with integer arguments the    *)
(* difficulty is an integer in 1..8, and getDifficulty returns the value   *)
(* last set (no other operation changes it).                               *)
(***************************************************************************)
C22_Clamp ==
    [][/\ difficulty \in 1..8
       /\ getDifficulty(difficulty') \in 1..8
       /\ \A value \in ClampInputs :
             SetDifficulty(value)
             => getDifficulty(difficulty') = Min(8, Max(1, value))
       /\ difficulty' # difficulty
             => \E value \in ClampInputs : SetDifficulty(value)]_vars

\* The difficulty sits at the upper end of the range, where only arguments
\* above 8 put it, and a block has been mined since.
C22_Witness ==
    /\ getDifficulty(difficulty) = 8
    /\ Len(chain) >= 2
    /\ getPendingCount(mempool) > 0

(***************************************************************************)
(* C23.  Balance history agrees with the balance table: for every address, *)
(* the synthetic payer addresses of reward and genesis transactions        *)
(* included, the balance in the last entry of getBalanceHistory(address)   *)
(* equals getBalance(address).                                             *)
(***************************************************************************)
Addresses ==
    DOMAIN balances \cup Parties(Confirmed) \cup {"genesis", "MINING_REWARD"}

LastEntry(history) == history[Len(history)]

C23_HistoryAgrees ==
    \A a \in Addresses :
        LastEntry(getBalanceHistory(chain, a)).balance = getBalance(balances, a)

(***************************************************************************)
(* C24.  getBalanceHistory(address) returns exactly chainLength entries    *)
(* for any address, the entry at position i having blockHeight i and the   *)
(* timestamp of chain[i], in increasing height order.                      *)
(***************************************************************************)
C24_HistoryShape ==
    \A a \in Addresses \cup {"nobody"} :
        LET history == getBalanceHistory(chain, a)
        IN  /\ Len(history) = Len(chain)
            /\ \A i \in 1..Len(chain) :
                  /\ history[i].blockHeight = i - 1
                  /\ history[i].timestamp = chain[i].ts
                  /\ history[i].address = a
            /\ \A i, j \in DOMAIN history :
                  i < j => history[i].blockHeight < history[j].blockHeight

\* Blocks mined at different times, the later one holding a transfer.
C24_Witness ==
    /\ Len(chain) >= 3
    /\ chain[1].ts < chain[Len(chain)].ts
    /\ Len(chain[Len(chain)].transactions) > 1
    /\ LastEntry(getBalanceHistory(chain, "bob")).balance > 0
    /\ LastEntry(getBalanceHistory(chain, "bob")).timestamp = MaxTime

(***************************************************************************)
(* C25.  Frozen hash: once a block's hash has been recorded, by mining or  *)
(* by reconstruction from saved data, reading block.hash returns that same *)
(* value in every later state, even if the block's nonce (or another of    *)
(* its fields) is changed afterwards.                                      *)
(***************************************************************************)
C25_FrozenHash ==
    [][/\ \A i \in DOMAIN chain :
             chain[i].hashCache # NoHash
             => (i \in DOMAIN chain' /\ hash(chain'[i]) = chain[i].hashCache)
       /\ \A i \in DOMAIN chain', field \in TamperFields :
             chain' # chain =>
             LET saved == blockToJSON(chain'[i])
                 loaded == reconstructBlock(saved)
             IN  /\ hash(loaded) = saved.hash
                 /\ hash(Tampered(loaded, field)) = saved.hash]_vars

\* The nonce of a mined block was changed: its fields no longer hash to the
\* recorded value, which is still what block.hash returns.
C25_Witness ==
    /\ last.op = "tamper"
    /\ \E i \in 2..Len(chain) :
          /\ chain[i].hashCache # NoHash
          /\ calculateHash(chain[i]).nonce # chain[i].hashCache.nonce
          /\ hash(chain[i]) = chain[i].hashCache

(***************************************************************************)
(* C26.  Append-only chain: every mineBlock call increases the chain       *)
(* length by exactly 1 and leaves all blocks at existing indices (their    *)
(* transactions, previous hash, nonce and hash) unchanged; no operation    *)
(* removes or reorders a block, and chain[0] is always the genesis block.  *)
(***************************************************************************)
IsGenesisBlock(block) ==
    /\ block.prevHash = EmptyHash
    /\ block.minerAddress = "GENESIS"
    /\ Len(block.transactions) = 1
    /\ block.transactions[1].type = "GENESIS"

C26_AppendOnly ==
    [][/\ \A minerAddress \in Miners, seed \in NonceSeeds :
             MineBlock(minerAddress, seed) => Len(chain') = Len(chain) + 1
       /\ Len(chain') >= Len(chain)
       /\ \A i \in DOMAIN chain :
             /\ chain'[i] = chain[i]
             /\ hash(chain'[i]) = hash(chain[i])
       /\ IsGenesisBlock(chain[1])
       /\ IsGenesisBlock(chain'[1])]_vars

\* Two blocks were appended behind the genesis block, the second after the
\* difficulty was changed.
C26_Witness ==
    /\ Len(chain) = 3
    /\ IsGenesisBlock(chain[1])
    /\ chain[2].prevHash = hash(chain[1])
    /\ LeadingZeros(hash(chain[3])) < initialDifficulty
    /\ last.op = "mineBlock"

(***************************************************************************)
(* C27.  Only mineBlock writes the chain and the balance table:            *)
(* addTransactionToMempool (accepted or rejected), setDifficulty,          *)
(* getBalance, getBalanceHistory and isChainValid leave the chain and      *)
(* every balance unchanged; setDifficulty does not re-mine or alter        *)
(* existing blocks and touches neither the mempool nor the balances.       *)
(***************************************************************************)
C27_OnlyMineBlockWrites ==
    [][/\ (chain' # chain \/ balances' # balances)
             => \E minerAddress \in Miners, seed \in NonceSeeds :
                    MineBlock(minerAddress, seed)
       /\ \A value \in DifficultyInputs :
             (last'.op = last.op /\ SetDifficulty(value))
             => UNCHANGED <<chain, mempool, balances>>
       /\ \A tx \in PoolInputs(now) :
             (last'.op = "addTransactionToMempool" /\ AddTransactionToMempool(tx))
             => UNCHANGED <<chain, balances>>
       /\ \A address \in QueryAddresses :
             (\/ last'.op = "getBalance" /\ GetBalance(address)
              \/ last'.op = "getBalanceHistory" /\ GetBalanceHistory(address))
             => UNCHANGED <<chain, mempool, balances, difficulty>>
       /\ (last'.op = "isChainValid" /\ IsChainValid)
             => UNCHANGED <<chain, mempool, balances, difficulty>>]_vars

\* The difficulty was lowered after every block had been mined under the
\* initial one, a transfer is pending and the history of the root identity
\* was read last.
C27_Witness ==
    /\ last.op = "getBalanceHistory"
    /\ Len(chain) >= 2
    /\ difficulty < initialDifficulty
    /\ \A i \in 2..Len(chain) : LeadingZeros(hash(chain[i])) >= initialDifficulty
    /\ getPendingCount(mempool) > 0
    /\ getBalance(balances, "alice") >= 50
    /\ LastEntry(last.out).balance = getBalance(balances, "satoshi")

(***************************************************************************)
(* C28.  Transaction lifecycle: a transaction moves only from pending to   *)
(* selected to confirmed.  Every transaction drained by a mineBlock call   *)
(* is in the block that this same call appends and is gone from the        *)
(* mempool, and nothing but a submission ever adds to the mempool.         *)
(***************************************************************************)
IsSuffix(rest, pool) ==
    \E k \in 0..Len(pool) : rest = SubSeq(pool, k + 1, Len(pool))

C28_Lifecycle ==
    [][/\ \A minerAddress \in Miners, seed \in NonceSeeds :
             MineBlock(minerAddress, seed)
             => LET k == Min(maxTransactionsPerBlock, getPendingCount(mempool))
                    confirmed == CoinbaseFree(chain'[Len(chain')])
                IN  /\ \A i \in 1..k : confirmed[i] = mempool[i].transaction
                    /\ Len(confirmed) = k
                    /\ Len(mempool') = Len(mempool) - k
                    /\ \A i \in DOMAIN mempool' : mempool'[i] = mempool[k + i]
       /\ (\A tx \in BatchInputs(now) : ~BatchSubmit(tx)) => IsSuffix(mempool', mempool)]_vars

\* Eleven transfers were pending: ten were confirmed by one mineBlock call
\* and the one left over by the next.
C28_Witness ==
    /\ last.op = "mineBlock"
    /\ Len(chain) = 3
    /\ Len(CoinbaseFree(chain[2])) = 10
    /\ Len(CoinbaseFree(chain[3])) = 1
    /\ getPendingCount(mempool) = 0

(***************************************************************************)
(* C29.  Mining always eventually succeeds: with a digest that meets the   *)
(* target for some nonce the loop reaches, every mineBlock(minerAddress)   *)
(* call terminates and returns a block that has been appended to the       *)
(* chain, for any difficulty in 1..8 and any mempool content, an empty one *)
(* included.                                                               *)
(***************************************************************************)
C29_MiningTerminates ==
    /\ (candidates # <<>>) ~> (candidates = <<>> /\ last.op = "mineBlock")
    /\ [][(candidates # <<>> /\ candidates' = <<>>)
            => /\ Len(chain') = Len(chain) + 1
               /\ SubSeq(chain', 1, Len(chain)) = chain
               /\ getLastBlock(chain').transactions = CurrentCall.block.transactions
               /\ getLastBlock(chain').prevHash = CurrentCall.block.prevHash
               /\ MeetsTarget(hash(getLastBlock(chain')), difficulty)
               /\ difficulty \in 1..8]_vars

\* Calls have returned under difficulty 8 and under difficulty 1, one of
\* them with an empty mempool, the other with a pending transfer.
C29_Witness ==
    /\ candidates = <<>>
    /\ last.op = "mineBlock"
    /\ Len(chain) = 3
    /\ LeadingZeros(hash(chain[2])) >= 8
    /\ Len(chain[2].transactions) = 1
    /\ LeadingZeros(hash(chain[3])) < 4
    /\ Len(chain[3].transactions) > 1

(***************************************************************************)
(* C30.  At most one mining operation is in flight at a time: across the   *)
(* periodic mining check of the simulation, its delayed mining callback,   *)
(* bot seeding and direct mineBlock calls, no two mineBlock executions     *)
(* overlap (a call begins only when none is executing, at most one delayed *)
(* callback is scheduled or executing, and nothing else writes the engine  *)
(* while a call executes), and no two of them drain the same pending       *)
(* transaction (what a call drains is exactly what leaves the mempool, and *)
(* exactly what its block confirms).                                       *)
(***************************************************************************)
TimerCalls == { i \in DOMAIN candidates : candidates[i].origin = "timer" }

\* The mempool a beginning call drains: start has seeded it first.
PoolAtCall ==
    IF sim'.isRunning /\ ~sim.isRunning
    THEN seedLoop(mempool, balances, 1, now) ELSE mempool

C30_OneMiningInFlight ==
    /\ [](/\ Len(candidates) <= 1
          /\ Len(sim.timers) + Cardinality(TimerCalls) <= 1
          /\ sim.isMining <=> (Len(sim.timers) + Cardinality(TimerCalls) = 1))
    /\ [][/\ Len(candidates') > Len(candidates)
              => /\ candidates = <<>>
                 /\ CoinbaseFree(candidates'[1].block) \o Pending'
                      = [i \in DOMAIN PoolAtCall |-> PoolAtCall[i].transaction]
                 /\ UNCHANGED <<chain, balances>>
          /\ Len(candidates') < Len(candidates)
              => /\ mempool' = mempool
                 /\ Len(chain') = Len(chain) + 1
                 /\ CoinbaseFree(getLastBlock(chain')) = CoinbaseFree(CurrentCall.block)
          /\ Len(candidates') = Len(candidates)
              => /\ UNCHANGED <<chain, balances>>
                 /\ candidates # <<>> => mempool' = mempool]_vars

\* After the seeding call has returned, a direct call is executing with the
\* three pending transactions it has drained, while the delayed callback of
\* the simulation is scheduled.
C30_Witness ==
    /\ Len(chain) = 2
    /\ chain[2].minerAddress = "satoshi"
    /\ Len(sim.timers) = 1
    /\ sim.isMining
    /\ Len(candidates) = 1
    /\ candidates[1].origin = "direct"
    /\ candidates[1].solution > 1
    /\ Len(CoinbaseFree(candidates[1].block)) = 3
    /\ mempool = <<>>

(***************************************************************************)
(* C31.  Atomic append-and-replay: in every state a reader (balance query, *)
(* history query, validity check, display render, transaction submission)  *)
(* can observe, the balance table reflects all transactions of every block *)
(* of the chain; no reader runs between the append of a block and the end  *)
(* of the replay of its transactions.                                      *)
(***************************************************************************)
Replayed(ch) == applyAll(<<>>, Flatten(ch))

C31_AtomicAppendReplay ==
    /\ [](Idle => balances = Replayed(chain))
    /\ [][UNCHANGED <<chain, balances, candidates>>
            => /\ balances = Replayed(chain)
               /\ balances' = Replayed(chain')]_vars

\* A balance query after a block with a transfer was appended and replayed.
C31_Witness ==
    /\ Idle
    /\ last.op = "getBalance"
    /\ Len(chain) = 3
    /\ Len(chain[2].transactions) >= 2
    /\ getBalance(balances, "bob") >= 60
    /\ last.out = <<getBalance(balances, "satoshi")>>

\* A block is appended and the replay of its transactions is under way.
C31_MidReplay ==
    /\ candidates # <<>>
    /\ CurrentCall.pushed
    /\ CurrentCall.applied >= 1
    /\ balances # Replayed(chain)

(***************************************************************************)
(* C32.  Persistence round trip: reconstructBlocks applied to the parsed   *)
(* output of exportToJSON yields blocks equal to the originals in previous *)
(* hash, timestamp, nonce, miner address and hash, whose transactions      *)
(* equal the originals in amount, payer, payee, fee, timestamp, signature  *)
(* and kind, in the same order.                                            *)
(***************************************************************************)
SameBlockFields(a, b) ==
    /\ a.prevHash = b.prevHash
    /\ a.ts = b.ts
    /\ a.nonce = b.nonce
    /\ a.minerAddress = b.minerAddress
    /\ hash(a) = hash(b)
    /\ Len(a.transactions) = Len(b.transactions)

SameTransactionFields(a, b) ==
    /\ a.amount = b.amount
    /\ a.payer = b.payer
    /\ a.payee = b.payee
    /\ a.fee = b.fee
    /\ a.timestamp = b.timestamp
    /\ a.signature = b.signature

C32_RoundTrip ==
    LET loaded == reconstructBlocks(exportToJSON(chain))
    IN  /\ Len(loaded) = Len(chain)
        /\ \A i \in DOMAIN chain :
              /\ SameBlockFields(loaded[i], chain[i])
              /\ \A j \in DOMAIN chain[i].transactions :
                    /\ SameTransactionFields(loaded[i].transactions[j],
                                             chain[i].transactions[j])
                    /\ loaded[i].transactions[j].type = chain[i].transactions[j].type

\* What the round trip does keep: every field but the kind.
C32_RoundTripButKind ==
    LET loaded == reconstructBlocks(exportToJSON(chain))
    IN  /\ Len(loaded) = Len(chain)
        /\ \A i \in DOMAIN chain :
              /\ SameBlockFields(loaded[i], chain[i])
              /\ \A j \in DOMAIN chain[i].transactions :
                    /\ SameTransactionFields(loaded[i].transactions[j],
                                             chain[i].transactions[j])
                    /\ loaded[i].transactions[j].type = "REGULAR"

(***************************************************************************)
(* C33.  Stopping the simulation: after stop() has returned and until      *)
(* start() is called again, the simulation submits no transaction and      *)
(* begins no mining, whatever was scheduled before the stop.               *)
(***************************************************************************)
C33_StopHalts ==
    [][(~sim.isRunning /\ ~sim'.isRunning)
        => /\ Len(mempool') <= Len(mempool)
           /\ Len(candidates') > Len(candidates)
               => candidates'[Len(candidates')].origin = "direct"]_vars

(***************************************************************************)
(* C34.  Simulation mining threshold: a running simulation schedules       *)
(* automatic mining when the pending count has reached the threshold of    *)
(* its speed, 10 in SLOW mode (a transaction every 5 s), 8 in MEDIUM mode  *)
(* (every 2 s), 5 in FAST mode (every 0.8 s), and never below it.          *)
(***************************************************************************)
GuideThreshold(txFrequency) ==
    IF txFrequency = 5000 THEN 10 ELSE IF txFrequency = 2000 THEN 8 ELSE 5

C34_GuideThreshold ==
    [][Len(sim'.timers) > Len(sim.timers)
        => getPendingCount(mempool) >= GuideThreshold(sim.txFrequency)]_vars

(***************************************************************************)
(* C35.  Age raises priority: of two pending transactions with the same    *)
(* fee, the one that was older when it was added has a priority at least   *)
(* as high as the younger one.                                             *)
(***************************************************************************)
\* Age in the unit of the clock when the entry was added: priority =
\* fee * 1000 / (age + 1).
AgeAtInsertion(pending) == pending.priority.den - 1

C35_AgeRaisesPriority ==
    \A i, j \in DOMAIN mempool :
        (/\ mempool[i].transaction.fee = mempool[j].transaction.fee
         /\ AgeAtInsertion(mempool[i]) > AgeAtInsertion(mempool[j]))
        => ~PriorityLess(mempool[i].priority, mempool[j].priority)

(***************************************************************************)
(* C36.  Total supply: when only REGULAR transactions are submitted, after *)
(* any sequence of submissions and mineBlock calls the sum of all balances *)
(* is 100 + 50 * (chainLength - 1); fees move value from the payers to the *)
(* miner and create no supply.                                             *)
(***************************************************************************)
OnlyRegularSubmitted ==
    \A txs \in {Pending, ConfirmedSubmitted} :
        \A i \in DOMAIN txs : txs[i].type = "REGULAR"

C36_TotalSupply ==
    OnlyRegularSubmitted => SumBalances = 100 + 50 * (Len(chain) - 1)

\* Two blocks were mined and a transfer with a fee was confirmed: its fee
\* left the payer and reached the miner.
C36_Witness ==
    /\ OnlyRegularSubmitted
    /\ Len(chain) = 3
    /\ \E i \in DOMAIN ConfirmedSubmitted :
          /\ ConfirmedSubmitted[i].fee > 0
          /\ ConfirmedSubmitted[i].payer = "satoshi"
    /\ getBalance(balances, "satoshi") < 100 - 60
    /\ getBalance(balances, "alice") > 2 * 50

(***************************************************************************)
(* C37.  Supply is created only by the engine: whatever the kinds of the   *)
(* transactions submitted, every block at index i > 0 holds exactly one    *)
(* REWARD transaction, the coinbase in its last slot, and no GENESIS       *)
(* transaction, and block 0 holds the single GENESIS transaction; a        *)
(* REWARD or GENESIS transaction handed in by a caller credits no payee.   *)
(***************************************************************************)
CountOfType(txs, type) == Cardinality({ i \in DOMAIN txs : txs[i].type = type })

C37_EngineOnlySupply ==
    /\ Len(chain[1].transactions) = 1
    /\ chain[1].transactions[1].type = "GENESIS"
    /\ \A i \in 2..Len(chain) :
          /\ CountOfType(chain[i].transactions, "REWARD") = 1
          /\ chain[i].transactions[Len(chain[i].transactions)].type = "REWARD"
          /\ CountOfType(chain[i].transactions, "GENESIS") = 0

(***************************************************************************)
(* C38.  No replay: a transaction, identified by its canonical             *)
(* serialization, that is confirmed in one block is not confirmed again in *)
(* a later block: handing in a confirmed transaction once more never       *)
(* debits its payer a second time.                                         *)
(***************************************************************************)
C38_NoReplay ==
    \A i, k \in 2..Len(chain) :
        i < k =>
            \A a \in DOMAIN CoinbaseFree(chain[i]), b \in DOMAIN CoinbaseFree(chain[k]) :
                toString(chain[i].transactions[a]) # toString(chain[k].transactions[b])

(***************************************************************************)
(* C39.  Mempool drains: with n transactions pending and no further        *)
(* submission, ceil(n/10) mineBlock calls leave pendingCount() at 0 and    *)
(* confirm each of the n transactions in exactly one block, a transaction  *)
(* of higher priority in a block no later than one of lower priority.      *)
(***************************************************************************)
CeilTenth(n) == (n + 9) \div 10

\* The batches k consecutive mineBlock calls drain from the pool, and the
\* pool they leave.
RECURSIVE MineAll(_, _)
MineAll(pool, k) ==
    IF k = 0 THEN [batches |-> <<>>, pool |-> pool]
    ELSE LET batch == IF getPendingCount(pool) > 0
                      THEN getTransactionsForBlock(pool, maxTransactionsPerBlock)
                      ELSE [transactions |-> <<>>, pool |-> pool]
             rest == MineAll(batch.pool, k - 1)
         IN  [batches |-> <<batch.transactions>> \o rest.batches, pool |-> rest.pool]

RECURSIVE Concat(_)
Concat(seqs) == IF seqs = <<>> THEN <<>> ELSE Head(seqs) \o Concat(Tail(seqs))

\* The call, counted from 1, that confirms the i-th pending entry.
CallOf(batches, i) ==
    CHOOSE b \in DOMAIN batches :
        /\ Len(Concat(SubSeq(batches, 1, b - 1))) < i
        /\ i <= Len(Concat(SubSeq(batches, 1, b)))

C39_MempoolDrains ==
    [][\A minerAddress \in Miners, seed \in NonceSeeds :
          MineBlock(minerAddress, seed)
          => LET n == getPendingCount(mempool)
                 all == MineAll(mempool, CeilTenth(n))
             IN  /\ all.pool = <<>>
                 /\ Concat(all.batches) = Pending
                 /\ n > 0 => MineAll(mempool, CeilTenth(n) - 1).pool # <<>>
                 /\ \A i, j \in DOMAIN mempool :
                       PriorityLess(mempool[j].priority, mempool[i].priority)
                       => CallOf(all.batches, i) <= CallOf(all.batches, j)
                 /\ n > 0 => /\ CoinbaseFree(getLastBlock(chain')) = all.batches[1]
                             /\ mempool' = MineAll(mempool, 1).pool
                             /\ CeilTenth(getPendingCount(mempool')) = CeilTenth(n) - 1]_vars

\* Eleven transfers of different fees were pending and two mineBlock calls
\* have confirmed them, the cheapest one in the second block.
C39_Witness ==
    /\ last.op = "mineBlock"
    /\ getPendingCount(mempool) = 0
    /\ Len(chain) = 3
    /\ Len(CoinbaseFree(chain[2])) = 10
    /\ Len(CoinbaseFree(chain[3])) = CeilTenth(1)
    /\ chain[2].transactions[1].fee > chain[2].transactions[10].fee
    /\ chain[2].transactions[10].fee >= chain[3].transactions[1].fee

(***************************************************************************)
(* C40.  The isMining flag never stays set: every mining attempt of the    *)
(* simulation that sets isMining eventually resets it, so transaction      *)
(* generation and later mining checks are not blocked forever.             *)
(***************************************************************************)
C40_IsMiningResets == sim.isMining ~> ~sim.isMining

\* The callback scheduled by a mining check has mined its block and has
\* reset the flag.
C40_Witness ==
    /\ ~sim.isMining
    /\ sim.timers = <<>>
    /\ sim.currentMinerIndex = 1
    /\ last.op = "mineBlock"
    /\ getLastBlock(chain).minerAddress = BotWallets[1]
    /\ Len(CoinbaseFree(getLastBlock(chain))) >= 3

====
